---- MODULE Spec2Model ----
(***************************************************************************)
(* Weather checker agent (weather_check_agent.py): the two capabilities    *)
(* check_weather and analyze_weather_match, the bounded agent-executor     *)
(* loop that invokes them, and main's mapping of the output to an exit     *)
(* code.                                                                   *)
(*                                                                         *)
(* A Python str is a sequence of one-character strings.  The two emoji of  *)
(* the verdict templates are the single characters "U+2705" and "U+274C".  *)
(***************************************************************************)
EXTENDS Naturals, Sequences, FiniteSets

-----------------------------------------------------------------------------
(* String literals of the program *)

\* Current weather in 
CURRENT_WEATHER_IN ==
    <<"C","u","r","r","e","n","t"," ","w","e","a","t","h","e","r"," ","i","n"," ">>

\* : 
COLON_SPACE ==
    <<":"," ">>

\* . Expected: 
DOT_EXPECTED ==
    <<"."," ","E","x","p","e","c","t","e","d",":"," ">>

\* Expected: 
EXPECTED_ANCHOR ==
    <<"E","x","p","e","c","t","e","d",":"," ">>

\* Invalid input format. Please use: city_name|expected_condition
INVALID_INPUT_FORMAT ==
    <<"I","n","v","a","l","i","d"," ","i","n","p","u","t"," ","f","o","r","m","a","t",".",
      " ","P","l","e","a","s","e"," ","u","s","e",":"," ","c","i","t","y","_","n","a","m",
      "e","|","e","x","p","e","c","t","e","d","_","c","o","n","d","i","t","i","o","n">>

\* Failed to set up WebDriver.
FAILED_WEBDRIVER ==
    <<"F","a","i","l","e","d"," ","t","o"," ","s","e","t"," ","u","p"," ","W","e","b","D",
      "r","i","v","e","r",".">>

\* Couldn't extract weather condition for 
COULD_NOT_EXTRACT ==
    <<"C","o","u","l","d","n","'","t"," ","e","x","t","r","a","c","t"," ","w","e","a","t",
      "h","e","r"," ","c","o","n","d","i","t","i","o","n"," ","f","o","r"," ">>

\* Error occurred while checking weather: 
ERROR_OCCURRED ==
    <<"E","r","r","o","r"," ","o","c","c","u","r","r","e","d"," ","w","h","i","l","e"," ",
      "c","h","e","c","k","i","n","g"," ","w","e","a","t","h","e","r",":"," ">>

\* Could not parse weather information correctly.
COULD_NOT_PARSE ==
    <<"C","o","u","l","d"," ","n","o","t"," ","p","a","r","s","e"," ","w","e","a","t","h",
      "e","r"," ","i","n","f","o","r","m","a","t","i","o","n"," ","c","o","r","r","e","c",
      "t","l","y",".">>

\* ✅ SUCCESS: The weather matches your expectation! Actual: '
SUCCESS_HEAD ==
    <<"U+2705"," ","S","U","C","C","E","S","S",":"," ","T","h","e"," ","w","e","a","t",
      "h","e","r"," ","m","a","t","c","h","e","s"," ","y","o","u","r"," ","e","x","p","e",
      "c","t","a","t","i","o","n","!"," ","A","c","t","u","a","l",":"," ","'">>

\* ❌ FAILURE: The weather doesn't match your expectation. Actual: '
FAILURE_HEAD ==
    <<"U+274C"," ","F","A","I","L","U","R","E",":"," ","T","h","e"," ","w","e","a","t",
      "h","e","r"," ","d","o","e","s","n","'","t"," ","m","a","t","c","h"," ","y","o","u",
      "r"," ","e","x","p","e","c","t","a","t","i","o","n","."," ","A","c","t","u","a","l",
      ":"," ","'">>

\* ', Expected: '
EXPECTED_MID ==
    <<"'",","," ","E","x","p","e","c","t","e","d",":"," ","'">>

\* '
QUOTE ==
    <<"'">>

\* SUCCESS
SUCCESS_MARKER ==
    <<"S","U","C","C","E","S","S">>

\* Agent stopped due to iteration limit or time limit.
AGENT_STOPPED ==
    <<"A","g","e","n","t"," ","s","t","o","p","p","e","d"," ","d","u","e"," ","t","o"," ",
      "i","t","e","r","a","t","i","o","n"," ","l","i","m","i","t"," ","o","r"," ","t","i",
      "m","e"," ","l","i","m","i","t",".">>

\* Invalid or incomplete response
INVALID_RESPONSE ==
    <<"I","n","v","a","l","i","d"," ","o","r"," ","i","n","c","o","m","p","l","e","t","e",
      " ","r","e","s","p","o","n","s","e">>

\* weather
WEATHER_WORD ==
    <<"w","e","a","t","h","e","r">>

\*  - 
TITLE_SEP ==
    <<" ","-"," ">>

\* id="wob_dc">
PATTERN_WOB_DC ==
    <<"i","d","=","\"","w","o","b","_","d","c","\"",">">>

\* class="BBwThe">
PATTERN_BBWTHE ==
    <<"c","l","a","s","s","=","\"","B","B","w","T","h","e","\"",">">>

\* class="VQF4g">
PATTERN_VQF4G ==
    <<"c","l","a","s","s","=","\"","V","Q","F","4","g","\"",">">>

\* data-local-attribute="weather-condition">
PATTERN_DATA_LOCAL ==
    <<"d","a","t","a","-","l","o","c","a","l","-","a","t","t","r","i","b","u","t","e","=",
      "\"","w","e","a","t","h","e","r","-","c","o","n","d","i","t","i","o","n","\"",">">>

conditions ==
    << <<"S","u","n","n","y">>,
       <<"C","l","e","a","r">>,
       <<"P","a","r","t","l","y"," ","c","l","o","u","d","y">>,
       <<"C","l","o","u","d","y">>,
       <<"R","a","i","n">>,
       <<"S","h","o","w","e","r","s">>,
       <<"T","h","u","n","d","e","r","s","t","o","r","m">>,
       <<"S","n","o","w">>,
       <<"M","i","s","t">>,
       <<"F","o","g">>,
       <<"H","a","z","e">>,
       <<"S","m","o","k","e">>,
       <<"D","u","s","t">>,
       <<"D","r","i","z","z","l","e">>,
       <<"O","v","e","r","c","a","s","t">> >>

-----------------------------------------------------------------------------
(* Python str operations used by the program *)

UPPER == <<"A","B","C","D","E","F","G","H","I","J","K","L","M",
           "N","O","P","Q","R","S","T","U","V","W","X","Y","Z">>

LOWER == <<"a","b","c","d","e","f","g","h","i","j","k","l","m",
           "n","o","p","q","r","s","t","u","v","w","x","y","z">>

MinOf(S) == CHOOSE m \in S : \A n \in S : m <= n

MaxOf(S) == CHOOSE m \in S : \A n \in S : n <= m

LowerChar(c) ==
    IF \E i \in 1..Len(UPPER) : UPPER[i] = c
    THEN LOWER[CHOOSE i \in 1..Len(UPPER) : UPPER[i] = c]
    ELSE c

\* s.lower()
Lower(s) == [i \in 1..Len(s) |-> LowerChar(s[i])]

IsSpace(c) == c \in {" ", "\n", "\t", "\r"}

\* s.strip()
Strip(s) ==
    LET keep == {i \in 1..Len(s) : ~IsSpace(s[i])}
    IN  IF keep = {} THEN <<>> ELSE SubSeq(s, MinOf(keep), MaxOf(keep))

\* p occurs in s starting at index i
MatchAt(p, s, i) ==
    /\ i >= 1
    /\ i + Len(p) - 1 <= Len(s)
    /\ \A k \in 1..Len(p) : s[i + k - 1] = p[k]

\* p in s
Contains(s, p) == \E i \in 1..(Len(s) + 1) : MatchAt(p, s, i)

\* s.split(sep), sep non-empty
RECURSIVE Split(_, _)
Split(s, sep) ==
    LET hits == {i \in 1..Len(s) : MatchAt(sep, s, i)}
    IN  IF hits = {}
        THEN <<s>>
        ELSE LET i == MinOf(hits)
             IN  <<SubSeq(s, 1, i - 1)>> \o Split(SubSeq(s, i + Len(sep), Len(s)), sep)

\* the regex atom "." matches every character but the line feed
NoNewline(s, a, b) == \A t \in a..b : s[t] # "\n"

-----------------------------------------------------------------------------
(* analyze_weather_match *)

\* An optional value: None, or Some(v)
None == <<>>

Some(v) == <<v>>

\* lengths k of the lazy group (.+?) starting at g that are followed by "\."
ActualGroupLens(s, g) ==
    {k \in 1..(Len(s) - g) : NoNewline(s, g, g + k - 1) /\ s[g + k] = "."}

\* lengths j of the lazy ".+?" starting at p that are followed by ": " and a group
ActualCityLens(s, p) ==
    {j \in 1..(Len(s) - p) :
        /\ NoNewline(s, p, p + j - 1)
        /\ MatchAt(COLON_SPACE, s, p + j)
        /\ ActualGroupLens(s, p + j + Len(COLON_SPACE)) # {}}

\* re.search(r"Current weather in .+?: (.+?)\.", s): group(1) of the leftmost
\* match, each lazy quantifier as short as the rest of the pattern allows
ActualSearch(s) ==
    LET starts == {i \in 1..Len(s) :
                      /\ MatchAt(CURRENT_WEATHER_IN, s, i)
                      /\ ActualCityLens(s, i + Len(CURRENT_WEATHER_IN)) # {}}
    IN  IF starts = {}
        THEN None
        ELSE LET p == MinOf(starts) + Len(CURRENT_WEATHER_IN)
                 g == p + MinOf(ActualCityLens(s, p)) + Len(COLON_SPACE)
             IN  Some(SubSeq(s, g, g + MinOf(ActualGroupLens(s, g)) - 1))

\* "$" without re.MULTILINE: the end of the string, or just before a final line feed
AtDollar(s, q) == q = Len(s) + 1 \/ (q = Len(s) /\ s[q] = "\n")

\* lengths k of the lazy group (.+?) starting at g that are followed by (?:\.|$)
ExpectedGroupLens(s, g) ==
    {k \in 1..(Len(s) - g + 1) :
        /\ NoNewline(s, g, g + k - 1)
        /\ \/ (g + k <= Len(s) /\ s[g + k] = ".")
           \/ AtDollar(s, g + k)}

\* re.search(r"Expected: (.+?)(?:\.|$)", s)
ExpectedSearch(s) ==
    LET starts == {i \in 1..Len(s) :
                      /\ MatchAt(EXPECTED_ANCHOR, s, i)
                      /\ ExpectedGroupLens(s, i + Len(EXPECTED_ANCHOR)) # {}}
    IN  IF starts = {}
        THEN None
        ELSE LET g == MinOf(starts) + Len(EXPECTED_ANCHOR)
             IN  Some(SubSeq(s, g, g + MinOf(ExpectedGroupLens(s, g)) - 1))

\* is_match: containment in either direction
is_match(actual_condition, expected_condition) ==
    \/ Contains(actual_condition, expected_condition)
    \/ Contains(expected_condition, actual_condition)

analyze_weather_match(input_str) ==
    LET actual_match == ActualSearch(input_str)
        expected_match == ExpectedSearch(input_str)
    IN  IF actual_match = None \/ expected_match = None
        THEN COULD_NOT_PARSE
        ELSE LET actual_condition == Lower(Strip(actual_match[1]))
                 expected_condition == Lower(Strip(expected_match[1]))
             IN  IF is_match(actual_condition, expected_condition)
                 THEN SUCCESS_HEAD \o actual_condition \o EXPECTED_MID
                          \o expected_condition \o QUOTE
                 ELSE FAILURE_HEAD \o actual_condition \o EXPECTED_MID
                          \o expected_condition \o QUOTE

-----------------------------------------------------------------------------
(* check_weather: parsing, the extraction strategies, the reports *)

PIPE == <<"|">>

InputWellFormed_AtLeastTwo(parts) == Len(parts) >= 2

\* the negation of `len(parts) != 2`
InputWellFormed(parts) == Len(parts) = 2

\* the eight entries of weather_selectors
NumSelectors == 8

\* truthiness of actual_condition: None and "" are falsy
Truthy(opt) == opt # None /\ opt[1] # <<>>

SelectorLoopDone_NoBreak(actual, i) == i = NumSelectors

\* the selector loop ends at its `break`, or after the last selector
SelectorLoopDone(actual, i) == Truthy(actual) \/ i = NumSelectors

AfterSelectors_Refetch(actual) == IF Truthy(actual) THEN "keyword" ELSE "get"

\* what follows the selector loop: the keyword scan block
AfterSelectors(actual) == "keyword"

\* KeywordScan: the stripped text of the first element that contains, case
\* insensitively, one of the known conditions
KeywordScan(elements) ==
    LET hits == {i \in 1..Len(elements) :
                    \E c \in 1..Len(conditions) :
                        Contains(Lower(Strip(elements[i])), Lower(conditions[c]))}
    IN  IF hits = {} THEN None ELSE Some(Strip(elements[MinOf(hits)]))

\* TitleParse: the first " - " segment of a title that mentions "weather"
TitleParse(title) ==
    IF Contains(Lower(title), WEATHER_WORD)
    THEN Some(Strip(Split(title, TITLE_SEP)[1]))
    ELSE None

patterns == <<PATTERN_WOB_DC, PATTERN_BBWTHE, PATTERN_VQF4G, PATTERN_DATA_LOCAL>>

\* re.findall(pattern + "([^<]+)<", s)[0], or None when there is no match
FirstCapture(pattern, s) ==
    LET starts == {i \in 1..Len(s) :
                      /\ MatchAt(pattern, s, i)
                      /\ i + Len(pattern) <= Len(s)
                      /\ s[i + Len(pattern)] # "<"
                      /\ \E q \in (i + Len(pattern) + 1)..Len(s) : s[q] = "<"}
    IN  IF starts = {}
        THEN None
        ELSE LET g == MinOf(starts) + Len(pattern)
                 q == MinOf({r \in (g + 1)..Len(s) : s[r] = "<"})
             IN  Some(SubSeq(s, g, q - 1))

\* MarkupRegex: the first pattern that matches the lower-cased page source
MarkupRegex(page_source) ==
    LET s == Lower(page_source)
        hits == {n \in 1..Len(patterns) : FirstCapture(patterns[n], s) # None}
    IN  IF hits = {}
        THEN None
        ELSE Some(Strip(FirstCapture(patterns[MinOf(hits)], s)[1]))

SuccessReport(c, actual, expected) ==
    CURRENT_WEATHER_IN \o c \o COLON_SPACE \o actual \o DOT_EXPECTED \o expected

NoEvidenceReport(c, expected) == COULD_NOT_EXTRACT \o c \o DOT_EXPECTED \o expected

ErrorReport(msg) == ERROR_OCCURRED \o msg

\* the report of lines 307-310
FinalReport(c, actual, expected) ==
    IF Truthy(actual)
    THEN SuccessReport(c, actual[1], expected)
    ELSE NoEvidenceReport(c, expected)

-----------------------------------------------------------------------------
(* Bounds and the inputs the environment may supply *)

\* longest element list find_elements returns
MaxElements == 2

\* longest string of the pure-function specification
PFMaxLen == 3

\* max_iterations of the agent executor
max_iterations == 3

\* tool inputs the reasoning function may give CheckWeather:
\* "a|Fog", " a |fog", "aFog", "a|Fog|x"
CheckWeatherInputs ==
    { <<"a","|","F","o","g">>,
      <<" ","a"," ","|","f","o","g">>,
      <<"a","F","o","g">>,
      <<"a","|","F","o","g","|","x">> }

\* element texts a selector may find: " ", "Fog", " Sun"
SelectorTexts == { <<" ">>, <<"F","o","g">>, <<" ","S","u","n">> }

\* texts of the elements find_elements may return: "abc", "Rain.\nx"
ElementTexts == { <<"a","b","c">>, <<"R","a","i","n",".","\n","x">> }

ElementLists == UNION {[1..n -> ElementTexts] : n \in 0..MaxElements}

\* page titles: "Fog - weather", "weather", " - Weather", "abc"
Titles ==
    { <<"F","o","g"," ","-"," ","w","e","a","t","h","e","r">>,
      <<"w","e","a","t","h","e","r">>,
      <<" ","-"," ","W","e","a","t","h","e","r">>,
      <<"a","b","c">> }

\* page sources: '<span id="wob_dc">Fog</span>', '<div class="BBwThe">Fog</div>', '<p>'
PageSources ==
    { <<"<","s","p","a","n"," ","i","d","=","\"","w","o","b","_","d","c","\"",">",
        "F","o","g","<","/","s","p","a","n",">">>,
      <<"<","d","i","v"," ","c","l","a","s","s","=","\"","B","B","w","T","h","e","\"",">",
        "F","o","g","<","/","d","i","v",">">>,
      <<"<","p",">">> }

\* str(e) of an exception raised by the browser: "err"
ExceptionMessages == { <<"e","r","r">> }

\* final answers the reasoning function may emit besides the last observation:
\* "SUCCESS", "no"
FinalAnswers == { <<"S","U","C","C","E","S","S">>, <<"n","o">> }

\* a report the reasoning function may hand to AnalyzeWeatherResult besides the
\* last observation: "Current weather in a: Sun. Expected: sun"
AnalyzeInputs ==
    { <<"C","u","r","r","e","n","t"," ","w","e","a","t","h","e","r"," ","i","n"," ",
        "a",":"," ","S","u","n","."," ","E","x","p","e","c","t","e","d",":"," ",
        "s","u","n">> }

\* characters of the strings of the pure-function specification
PFChars == {"a", "B", ".", " ", "\n"}

PFStrings == UNION {[1..n -> PFChars] : n \in 1..PFMaxLen}

\* cities of the pure-function specification: "c", "c: d"
PFCities == { <<"c">>, <<"c",":"," ","d">> }

-----------------------------------------------------------------------------
(* State *)

VARIABLES
    phase,                 \* main / Thinking / CapabilityChosen / Finished / Aborted / Exited
    iterations,            \* the executor's iteration counter
    invocations,           \* calls of check_weather and analyze_weather_match so far
    every_turn_capability, \* the reasoning function has chosen a capability on every turn
    tool,                  \* the capability being run
    tool_input,            \* its input string
    last_observation,      \* the last capability output in the transcript
    output,                \* result["output"]
    exit_code,             \* None while the process runs, then Some(0) or Some(1)
    pc,                    \* position inside check_weather
    city,
    expected_condition,
    driver,                \* check_weather's `driver` is an object (TRUE) or None (FALSE)
    sel_index,             \* position in weather_selectors
    actual_condition,      \* None, or Some(string)
    exc,                   \* None, or Some(str(e)) of the exception being handled
    result,                \* None, or Some(returned string)
    raising,               \* check_weather ends by propagating an exception
    live_browsers,         \* browser processes started and not yet quit
    setup_calls,           \* setup_webdriver calls of this invocation
    nav_count,             \* driver.get calls of this invocation
    screenshots,           \* screenshots saved by this invocation
    strategies,            \* extraction strategies invoked by this invocation, in order
    probes,                \* selectors probed by this invocation
    first_hit,             \* None, or Some(<<index, text>>) of the first selector with text
    fetch_failed,          \* provisioning or navigation failed in this invocation
    pf_pc,                 \* pure-function specification: off / input / built / analyzed
    pf_city,
    pf_actual,
    pf_expected,
    pf_via,                \* how pf_report was built: template / check_weather
    pf_report,
    pf_verdict

loop_vars ==
    <<phase, iterations, invocations, every_turn_capability, tool, tool_input,
      last_observation, output, exit_code>>

frame_vars ==
    <<pc, city, expected_condition, driver, sel_index, actual_condition, exc, result,
      raising>>

ghost_vars ==
    <<setup_calls, nav_count, screenshots, strategies, probes, first_hit, fetch_failed>>

pf_vars == <<pf_pc, pf_city, pf_actual, pf_expected, pf_via, pf_report, pf_verdict>>

vars == <<loop_vars, frame_vars, ghost_vars, live_browsers, pf_vars>>

\* check_weather is not running: its locals and the per-invocation counters are blank
FrameIdle ==
    /\ pc = "idle"
    /\ city = <<>>
    /\ expected_condition = <<>>
    /\ driver = FALSE
    /\ sel_index = 1
    /\ actual_condition = None
    /\ exc = None
    /\ result = None
    /\ raising = FALSE
    /\ setup_calls = 0
    /\ nav_count = 0
    /\ screenshots = 0
    /\ strategies = <<>>
    /\ probes = 0
    /\ first_hit = None
    /\ fetch_failed = FALSE

PFOff ==
    /\ pf_pc = "off"
    /\ pf_city = <<>>
    /\ pf_actual = <<>>
    /\ pf_expected = <<>>
    /\ pf_via = "none"
    /\ pf_report = <<>>
    /\ pf_verdict = <<>>

LoopInit ==
    /\ phase = "main"
    /\ iterations = 0
    /\ invocations = 0
    /\ every_turn_capability = TRUE
    /\ tool = "none"
    /\ tool_input = <<>>
    /\ last_observation = <<>>
    /\ output = <<>>
    /\ exit_code = None
    /\ live_browsers = 0

Init == LoopInit /\ FrameIdle /\ PFOff

-----------------------------------------------------------------------------
(* main and WeatherCheckerAgent.__init__ *)

\* main checks argv, builds the agent (Ollama may fail to initialise) and runs it
Start ==
    /\ phase = "main"
    /\ \E args_ok \in BOOLEAN, llm_ok \in BOOLEAN :
          IF args_ok /\ llm_ok
          THEN phase' = "Thinking" /\ exit_code' = exit_code
          ELSE phase' = "Exited" /\ exit_code' = Some(1)
    /\ UNCHANGED <<iterations, invocations, every_turn_capability, tool, tool_input,
                   last_observation, output>>
    /\ UNCHANGED <<frame_vars, ghost_vars, live_browsers, pf_vars>>

\* main maps the output to the exit code
Exit ==
    /\ phase = "Finished"
    /\ phase' = "Exited"
    /\ exit_code' = Some(IF Contains(output, SUCCESS_MARKER) THEN 0 ELSE 1)
    /\ UNCHANGED <<iterations, invocations, every_turn_capability, tool, tool_input,
                   last_observation, output>>
    /\ UNCHANGED <<frame_vars, ghost_vars, live_browsers, pf_vars>>

\* an exception that leaves agent.run is caught nowhere: the interpreter exits with 1
Crash ==
    /\ phase = "Aborted"
    /\ phase' = "Exited"
    /\ exit_code' = Some(1)
    /\ UNCHANGED <<iterations, invocations, every_turn_capability, tool, tool_input,
                   last_observation, output>>
    /\ UNCHANGED <<frame_vars, ghost_vars, live_browsers, pf_vars>>

-----------------------------------------------------------------------------
(* The agent executor's loop, max_iterations = 3, handle_parsing_errors = True *)

\* the reasoning function chooses CheckWeather
ChooseCheckWeather ==
    /\ phase = "Thinking"
    /\ iterations < max_iterations
    /\ \E input \in CheckWeatherInputs : tool_input' = input
    /\ phase' = "CapabilityChosen"
    /\ tool' = "CheckWeather"
    /\ invocations' = invocations + 1
    /\ pc' = "parse"
    /\ UNCHANGED <<iterations, every_turn_capability, last_observation, output, exit_code>>
    /\ UNCHANGED <<city, expected_condition, driver, sel_index, actual_condition, exc,
                   result, raising>>
    /\ UNCHANGED <<ghost_vars, live_browsers, pf_vars>>

\* the reasoning function chooses AnalyzeWeatherResult
ChooseAnalyze ==
    /\ phase = "Thinking"
    /\ iterations < max_iterations
    /\ \E input \in AnalyzeInputs \cup {last_observation} : tool_input' = input
    /\ phase' = "CapabilityChosen"
    /\ tool' = "AnalyzeWeatherResult"
    /\ invocations' = invocations + 1
    /\ UNCHANGED <<iterations, every_turn_capability, last_observation, output, exit_code>>
    /\ UNCHANGED <<frame_vars, ghost_vars, live_browsers, pf_vars>>

\* the reasoning function's output cannot be parsed, or names no tool: the step is
\* recorded with a fixed observation and no capability runs
ChooseInvalid ==
    /\ phase = "Thinking"
    /\ iterations < max_iterations
    /\ iterations' = iterations + 1
    /\ every_turn_capability' = FALSE
    /\ last_observation' = INVALID_RESPONSE
    /\ UNCHANGED <<phase, invocations, tool, tool_input, output, exit_code>>
    /\ UNCHANGED <<frame_vars, ghost_vars, live_browsers, pf_vars>>

\* the reasoning function emits a final answer
EmitFinal ==
    /\ phase = "Thinking"
    /\ iterations < max_iterations
    /\ \E answer \in FinalAnswers \cup {last_observation} : output' = answer
    /\ phase' = "Finished"
    /\ every_turn_capability' = FALSE
    /\ UNCHANGED <<iterations, invocations, tool, tool_input, last_observation, exit_code>>
    /\ UNCHANGED <<frame_vars, ghost_vars, live_browsers, pf_vars>>

\* the iteration limit is reached: the executor stops with its fixed output
ForceStop ==
    /\ phase = "Thinking"
    /\ iterations >= max_iterations
    /\ phase' = "Finished"
    /\ output' = AGENT_STOPPED
    /\ UNCHANGED <<iterations, invocations, every_turn_capability, tool, tool_input,
                   last_observation, exit_code>>
    /\ UNCHANGED <<frame_vars, ghost_vars, live_browsers, pf_vars>>

\* the tool AnalyzeWeatherResult runs and its output is observed
RunAnalyze ==
    /\ phase = "CapabilityChosen"
    /\ tool = "AnalyzeWeatherResult"
    /\ last_observation' = analyze_weather_match(tool_input)
    /\ iterations' = iterations + 1
    /\ phase' = "Thinking"
    /\ tool' = "none"
    /\ tool_input' = <<>>
    /\ UNCHANGED <<invocations, every_turn_capability, output, exit_code>>
    /\ UNCHANGED <<frame_vars, ghost_vars, live_browsers, pf_vars>>

\* check_weather's frame is dropped and the per-invocation counters start again
FrameReset ==
    /\ pc' = "idle"
    /\ city' = <<>>
    /\ expected_condition' = <<>>
    /\ driver' = FALSE
    /\ sel_index' = 1
    /\ actual_condition' = None
    /\ exc' = None
    /\ result' = None
    /\ raising' = FALSE
    /\ setup_calls' = 0
    /\ nav_count' = 0
    /\ screenshots' = 0
    /\ strategies' = <<>>
    /\ probes' = 0
    /\ first_hit' = None
    /\ fetch_failed' = FALSE

\* check_weather has ended: its output is observed, or its exception leaves the loop
ObserveCheckWeather ==
    /\ phase = "CapabilityChosen"
    /\ tool = "CheckWeather"
    /\ pc = "return"
    /\ IF raising
       THEN /\ phase' = "Aborted"
            /\ UNCHANGED <<iterations, last_observation>>
       ELSE /\ phase' = "Thinking"
            /\ iterations' = iterations + 1
            /\ last_observation' = result[1]
    /\ tool' = "none"
    /\ tool_input' = <<>>
    /\ FrameReset
    /\ UNCHANGED <<invocations, every_turn_capability, output, exit_code>>
    /\ UNCHANGED <<live_browsers, pf_vars>>

-----------------------------------------------------------------------------
(* check_weather, step by step *)

\* lines 182-187: split the input; a wrong segment count returns at once
CW_Parse ==
    /\ pc = "parse"
    /\ LET parts == Split(tool_input, PIPE)
       IN  IF InputWellFormed(parts)
           THEN /\ city' = Strip(parts[1])
                /\ expected_condition' = Strip(parts[2])
                /\ pc' = "setup"
                /\ result' = result
           ELSE /\ result' = Some(INVALID_INPUT_FORMAT)
                /\ pc' = "return"
                /\ UNCHANGED <<city, expected_condition>>
    /\ UNCHANGED <<driver, sel_index, actual_condition, exc, raising>>
    /\ UNCHANGED <<loop_vars, ghost_vars, live_browsers, pf_vars>>

\* lines 189-191 with setup_webdriver: the driver install or the Chrome constructor
\* fails before a browser exists, or execute_cdp_cmd fails after the browser was
\* started, or the driver is returned; every failure is caught and None is returned
CW_Setup ==
    /\ pc = "setup"
    /\ setup_calls' = setup_calls + 1
    /\ \E outcome \in {"no_browser", "cdp_failed", "ok"} :
          /\ live_browsers' = IF outcome = "no_browser"
                              THEN live_browsers
                              ELSE live_browsers + 1
          /\ driver' = (outcome = "ok")
          /\ IF outcome = "ok"
             THEN /\ pc' = "get"
                  /\ UNCHANGED <<result, fetch_failed>>
             ELSE /\ result' = Some(FAILED_WEBDRIVER)
                  /\ fetch_failed' = TRUE
                  /\ pc' = "return"
    /\ UNCHANGED <<city, expected_condition, sel_index, actual_condition, exc, raising>>
    /\ UNCHANGED <<nav_count, screenshots, strategies, probes, first_hit>>
    /\ UNCHANGED <<loop_vars, pf_vars>>

\* lines 195-201: driver.get, inside the try block
CW_Get ==
    /\ pc = "get"
    /\ nav_count' = nav_count + 1
    /\ \/ /\ pc' = "shot1"
          /\ UNCHANGED <<exc, fetch_failed>>
       \/ \E msg \in ExceptionMessages :
             /\ exc' = Some(msg)
             /\ fetch_failed' = TRUE
             /\ pc' = "except"
    /\ UNCHANGED <<city, expected_condition, driver, sel_index, actual_condition, result,
                   raising>>
    /\ UNCHANGED <<setup_calls, screenshots, strategies, probes, first_hit>>
    /\ UNCHANGED <<loop_vars, live_browsers, pf_vars>>

\* lines 204-206: the initial screenshot
CW_InitialScreenshot ==
    /\ pc = "shot1"
    /\ \/ /\ screenshots' = screenshots + 1
          /\ pc' = "selectors"
          /\ sel_index' = 1
          /\ exc' = exc
       \/ \E msg \in ExceptionMessages :
             /\ exc' = Some(msg)
             /\ pc' = "except"
             /\ UNCHANGED <<screenshots, sel_index>>
    /\ UNCHANGED <<city, expected_condition, driver, actual_condition, result, raising>>
    /\ UNCHANGED <<setup_calls, nav_count, strategies, probes, first_hit, fetch_failed>>
    /\ UNCHANGED <<loop_vars, live_browsers, pf_vars>>

\* lines 223-235: one pass of the selector loop.  The wait raises (caught, next
\* selector) or the element's text is read and stripped; non-empty text is kept
\* and ends the loop
CW_Selector ==
    /\ pc = "selectors"
    /\ \E found \in {None} \cup {Some(t) : t \in SelectorTexts} :
          LET condition == IF found = None THEN <<>> ELSE Strip(found[1])
              actual == IF condition # <<>> THEN Some(condition) ELSE actual_condition
          IN  /\ actual_condition' = actual
              /\ first_hit' = IF first_hit = None /\ condition # <<>>
                              THEN Some(<<sel_index, found[1]>>)
                              ELSE first_hit
              /\ IF SelectorLoopDone(actual, sel_index)
                 THEN pc' = AfterSelectors(actual) /\ sel_index' = sel_index
                 ELSE pc' = pc /\ sel_index' = sel_index + 1
    /\ probes' = probes + 1
    /\ strategies' = IF sel_index = 1
                     THEN Append(strategies, "StructuredSelector")
                     ELSE strategies
    /\ UNCHANGED <<city, expected_condition, driver, exc, result, raising>>
    /\ UNCHANGED <<setup_calls, nav_count, screenshots, fetch_failed>>
    /\ UNCHANGED <<loop_vars, live_browsers, pf_vars>>

\* lines 238-262: the keyword scan, skipped when a condition is already held;
\* find_elements or a text read may raise, which is caught
CW_Keyword ==
    /\ pc = "keyword"
    /\ pc' = "title"
    /\ IF Truthy(actual_condition)
       THEN UNCHANGED <<actual_condition, strategies>>
       ELSE /\ strategies' = Append(strategies, "KeywordScan")
            /\ \E found \in {None} \cup {Some(els) : els \in ElementLists} :
                  actual_condition' =
                      IF found = None \/ KeywordScan(found[1]) = None
                      THEN actual_condition
                      ELSE KeywordScan(found[1])
    /\ UNCHANGED <<city, expected_condition, driver, sel_index, exc, result, raising>>
    /\ UNCHANGED <<setup_calls, nav_count, screenshots, probes, first_hit, fetch_failed>>
    /\ UNCHANGED <<loop_vars, live_browsers, pf_vars>>

\* lines 265-276: the title, skipped when a condition is already held
CW_Title ==
    /\ pc = "title"
    /\ pc' = "source"
    /\ IF Truthy(actual_condition)
       THEN UNCHANGED <<actual_condition, strategies>>
       ELSE /\ strategies' = Append(strategies, "TitleParse")
            /\ \E found \in {None} \cup {Some(t) : t \in Titles} :
                  actual_condition' =
                      IF found = None \/ TitleParse(found[1]) = None
                      THEN actual_condition
                      ELSE TitleParse(found[1])
    /\ UNCHANGED <<city, expected_condition, driver, sel_index, exc, result, raising>>
    /\ UNCHANGED <<setup_calls, nav_count, screenshots, probes, first_hit, fetch_failed>>
    /\ UNCHANGED <<loop_vars, live_browsers, pf_vars>>

\* lines 279-299: the page source, skipped when a condition is already held
CW_Source ==
    /\ pc = "source"
    /\ pc' = "shot2"
    /\ IF Truthy(actual_condition)
       THEN UNCHANGED <<actual_condition, strategies>>
       ELSE /\ strategies' = Append(strategies, "MarkupRegex")
            /\ \E found \in {None} \cup {Some(src) : src \in PageSources} :
                  actual_condition' =
                      IF found = None \/ MarkupRegex(found[1]) = None
                      THEN actual_condition
                      ELSE MarkupRegex(found[1])
    /\ UNCHANGED <<city, expected_condition, driver, sel_index, exc, result, raising>>
    /\ UNCHANGED <<setup_calls, nav_count, screenshots, probes, first_hit, fetch_failed>>
    /\ UNCHANGED <<loop_vars, live_browsers, pf_vars>>

\* lines 302-310: the final screenshot, then the report is returned
CW_FinalScreenshot ==
    /\ pc = "shot2"
    /\ \/ /\ screenshots' = screenshots + 1
          /\ result' = Some(FinalReport(city, actual_condition, expected_condition))
          /\ pc' = "finally"
          /\ exc' = exc
       \/ \E msg \in ExceptionMessages :
             /\ exc' = Some(msg)
             /\ pc' = "except"
             /\ UNCHANGED <<screenshots, result>>
    /\ UNCHANGED <<city, expected_condition, driver, sel_index, actual_condition, raising>>
    /\ UNCHANGED <<setup_calls, nav_count, strategies, probes, first_hit, fetch_failed>>
    /\ UNCHANGED <<loop_vars, live_browsers, pf_vars>>

\* lines 312-318: the handler builds the error string and takes the error
\* screenshot; a failure of that screenshot leaves the handler as an exception
CW_Except ==
    /\ pc = "except"
    /\ pc' = "finally"
    /\ \/ /\ screenshots' = screenshots + 1
          /\ result' = Some(ErrorReport(exc[1]))
          /\ raising' = raising
       \/ /\ raising' = TRUE
          /\ UNCHANGED <<screenshots, result>>
    /\ UNCHANGED <<city, expected_condition, driver, sel_index, actual_condition, exc>>
    /\ UNCHANGED <<setup_calls, nav_count, strategies, probes, first_hit, fetch_failed>>
    /\ UNCHANGED <<loop_vars, live_browsers, pf_vars>>

\* lines 320-324: driver.quit() ends the browser; the Chrome driver's quit swallows
\* its own errors, so the clause itself does not raise
CW_Finally ==
    /\ pc = "finally"
    /\ pc' = "return"
    /\ live_browsers' = IF driver THEN live_browsers - 1 ELSE live_browsers
    /\ UNCHANGED <<city, expected_condition, driver, sel_index, actual_condition, exc, result,
                   raising>>
    /\ UNCHANGED <<ghost_vars, loop_vars, pf_vars>>

Next ==
    \/ Start
    \/ ChooseCheckWeather
    \/ ChooseAnalyze
    \/ ChooseInvalid
    \/ EmitFinal
    \/ ForceStop
    \/ RunAnalyze
    \/ ObserveCheckWeather
    \/ CW_Parse
    \/ CW_Setup
    \/ CW_Get
    \/ CW_InitialScreenshot
    \/ CW_Selector
    \/ CW_Keyword
    \/ CW_Title
    \/ CW_Source
    \/ CW_FinalScreenshot
    \/ CW_Except
    \/ CW_Finally
    \/ Exit
    \/ Crash

Spec == Init /\ [][Next]_vars

-----------------------------------------------------------------------------
(* The two capabilities as pure functions of their strings: a report is built  *)
(* from a city, a phrase and an expected condition, and then analysed          *)

InitAnalyze ==
    /\ LoopInit
    /\ FrameIdle
    /\ pf_pc = "input"
    /\ pf_city \in PFCities
    /\ pf_actual \in PFStrings
    /\ pf_expected \in PFStrings
    /\ pf_via = "none"
    /\ pf_report = <<>>
    /\ pf_verdict = <<>>

\* the report as the template of line 308 writes it, around the pair as given
PF_TemplateReport ==
    /\ pf_pc = "input"
    /\ pf_report' = SuccessReport(pf_city, pf_actual, pf_expected)
    /\ pf_via' = "template"
    /\ pf_pc' = "built"
    /\ UNCHANGED <<pf_city, pf_actual, pf_expected, pf_verdict>>
    /\ UNCHANGED <<loop_vars, frame_vars, ghost_vars, live_browsers>>

\* the report as check_weather builds it: city and expected condition stripped
\* (line 186), the phrase stripped by the strategy that found it and non-empty
PF_CheckWeatherReport ==
    /\ pf_pc = "input"
    /\ Strip(pf_city) # <<>>
    /\ Strip(pf_expected) # <<>>
    /\ Truthy(Some(Strip(pf_actual)))
    /\ pf_report' = FinalReport(Strip(pf_city), Some(Strip(pf_actual)), Strip(pf_expected))
    /\ pf_via' = "check_weather"
    /\ pf_pc' = "built"
    /\ UNCHANGED <<pf_city, pf_actual, pf_expected, pf_verdict>>
    /\ UNCHANGED <<loop_vars, frame_vars, ghost_vars, live_browsers>>

PF_Analyze ==
    /\ pf_pc = "built"
    /\ pf_verdict' = analyze_weather_match(pf_report)
    /\ pf_pc' = "analyzed"
    /\ UNCHANGED <<pf_city, pf_actual, pf_expected, pf_via, pf_report>>
    /\ UNCHANGED <<loop_vars, frame_vars, ghost_vars, live_browsers>>

NextAnalyze ==
    \/ PF_TemplateReport
    \/ PF_CheckWeatherReport
    \/ PF_Analyze

SpecAnalyze == InitAnalyze /\ [][NextAnalyze]_vars

-----------------------------------------------------------------------------
(* Properties *)

IsSuccess(verdict) == MatchAt(SUCCESS_HEAD, verdict, 1)

IsFailure(verdict) == MatchAt(FAILURE_HEAD, verdict, 1)

STRATEGY_ORDER == <<"StructuredSelector", "KeywordScan", "TitleParse", "MarkupRegex">>

\* check_weather has ended and its caller has not yet taken the outcome
Returned == pc = "return"

\* the stages of check_weather between the first selector probe and the report
InChain == pc \in {"selectors", "keyword", "title", "source", "shot2"}

\* C1: a run never makes more than 3 capability invocations, and a run in which
\* the reasoning function chose a capability on every turn and never gave a final
\* answer ends Finished after exactly 3 invocations with the fixed output of the
\* iteration limit.
C1_BoundedLoop ==
    /\ invocations <= max_iterations
    /\ (phase \in {"Finished", "Aborted"} /\ every_turn_capability) =>
          /\ phase = "Finished"
          /\ invocations = max_iterations
          /\ output = AGENT_STOPPED

\* C2: for a report written by the template around a pair (actual, expected),
\* the verdict is SUCCESS exactly when lower(expected) occurs in lower(actual) or
\* lower(actual) occurs in lower(expected), and FAILURE otherwise.  Stated for
\* the pairs without leading or trailing whitespace, which stripping leaves as
\* they are.
C2_ContainmentLaw ==
    (/\ pf_pc = "analyzed"
     /\ pf_via = "template"
     /\ Strip(pf_actual) = pf_actual
     /\ Strip(pf_expected) = pf_expected) =>
        IF \/ Contains(Lower(pf_actual), Lower(pf_expected))
           \/ Contains(Lower(pf_expected), Lower(pf_actual))
        THEN IsSuccess(pf_verdict)
        ELSE IsFailure(pf_verdict)

\* C3: whenever check_weather is not running (it has returned or raised), no
\* browser process it started is still alive.
C3_BrowserReleased == pc \in {"idle", "return"} => live_browsers = 0

\* C4: check_weather never ends by propagating an exception, so the reasoning
\* loop is never aborted by one.
C4_NeverPropagates == ~raising /\ phase # "Aborted"

\* C5 as stated: when a selector found text and check_weather returned a report,
\* the report carries exactly the text of the first selector that found text, and
\* StructuredSelector is the only strategy that ran.
C5_ExactText ==
    (Returned /\ exc = None /\ first_hit # None) =>
        /\ result = Some(SuccessReport(city, first_hit[1][2], expected_condition))
        /\ strategies = <<"StructuredSelector">>

\* the state part of C5: strategies run in the fixed order; once a selector has
\* found text the phrase held is that text stripped, no further selector is
\* probed and no later strategy runs; the report returned carries that phrase
C5_State ==
    /\ \E n \in 0..Len(STRATEGY_ORDER) : strategies = SubSeq(STRATEGY_ORDER, 1, n)
    /\ (first_hit # None /\ pc \notin {"idle", "except"}) =>
          /\ actual_condition = Some(Strip(first_hit[1][2]))
          /\ probes = first_hit[1][1]
          /\ strategies = <<"StructuredSelector">>
    /\ (Returned /\ exc = None /\ first_hit # None) =>
          result = Some(SuccessReport(city, Strip(first_hit[1][2]), expected_condition))

\* the step part of C5: once a non-empty phrase is held, no later step of the
\* chain replaces it, probes a selector or invokes a strategy
C5_Step ==
    (InChain /\ Truthy(actual_condition)) =>
        /\ actual_condition' = actual_condition
        /\ strategies' = strategies
        /\ probes' = probes

\* C5 (amended): the chain is first-match-wins in the order StructuredSelector,
\* KeywordScan, TitleParse, MarkupRegex; when a selector finds text that is not
\* blank, the phrase of the report equals the text of the first such selector
\* with leading and trailing whitespace stripped, and no later selector or
\* strategy is invoked.
C5_FirstMatchWins == []C5_State /\ [][C5_Step]_vars

\* C5 witness: a report was returned whose phrase came from a selector later than
\* the first, found with surrounding whitespace
C5_Witness ==
    /\ Returned
    /\ exc = None
    /\ first_hit # None
    /\ first_hit[1][1] > 1
    /\ Strip(first_hit[1][2]) # first_hit[1][2]
    /\ result = Some(SuccessReport(city, Strip(first_hit[1][2]), expected_condition))

\* C6: when all four strategies ran and none yielded a phrase, check_weather
\* returns the no-evidence report, not an error string and not an exception.
\* (The other half of the claim, that an exception inside a strategy is caught
\* and the next strategy runs, is how CW_Selector to CW_Source proceed.)
C6_NoEvidenceReport ==
    (Returned /\ strategies = STRATEGY_ORDER /\ ~Truthy(actual_condition)) =>
        /\ ~raising
        /\ result = Some(NoEvidenceReport(city, expected_condition))

\* C7 as stated: every check_weather invocation has made exactly one driver.get
\* by the time it ends.
C7_ExactlyOneFetch == Returned => nav_count = 1

\* C7 (amended): an invocation makes at most one driver.get: exactly one when
\* the input was well-formed and the browser was provisioned, none otherwise;
\* the fetch is never repeated, and every strategy that runs does so after that
\* one fetch.
C7_AtMostOneFetch ==
    /\ nav_count <= 1
    /\ Returned => (nav_count = 1 <=> driver)
    /\ strategies # <<>> => nav_count = 1

\* C7 witness: an invocation ended after all four strategies ran on one fetch
C7_Witness == Returned /\ nav_count = 1 /\ strategies = STRATEGY_ORDER

\* C8: once check_weather has parsed an input whose split on "|" does not give
\* exactly two segments, it has returned the fixed invalid-format string, and has
\* set up no browser, fetched nothing, saved no screenshot and run no strategy.
C8_MalformedInput ==
    (pc \notin {"idle", "parse"} /\ Len(Split(tool_input, PIPE)) # 2) =>
        /\ Returned
        /\ result = Some(INVALID_INPUT_FORMAT)
        /\ ~raising
        /\ ~driver
        /\ setup_calls = 0
        /\ nav_count = 0
        /\ screenshots = 0
        /\ probes = 0
        /\ strategies = <<>>

\* C8 witness: an input with two separators was answered
C8_Witness ==
    /\ Returned
    /\ Len(Split(tool_input, PIPE)) = 3
    /\ result = Some(INVALID_INPUT_FORMAT)

\* C9: when provisioning or navigation failed, check_weather has returned an
\* error report (it did not raise), and analyze_weather_match answers that
\* report with the unparseable verdict.
C9_FetchFailure ==
    (Returned /\ fetch_failed) =>
        /\ ~raising
        /\ result # None
        /\ result[1] \in {FAILED_WEBDRIVER} \cup {ErrorReport(m) : m \in ExceptionMessages}
        /\ analyze_weather_match(result[1]) = COULD_NOT_PARSE

\* C10: for a report check_weather builds from non-empty city, phrase and
\* expected condition, analyze_weather_match compares exactly the lower-cased
\* trimmed phrase with the lower-cased trimmed expected condition.
C10_RoundTrip ==
    (pf_pc = "analyzed" /\ pf_via = "check_weather") =>
        LET a == Lower(Strip(pf_actual))
            e == Lower(Strip(pf_expected))
        IN  pf_verdict =
                (IF Contains(a, e) \/ Contains(e, a) THEN SUCCESS_HEAD ELSE FAILURE_HEAD)
                    \o a \o EXPECTED_MID \o e \o QUOTE
====
